---- MODULE Spec2Model ----
(***************************************************************************)
(* Training-and-lifecycle orchestration of PyPOTS neural models, modelled  *)
(* on USGAN (pypots/imputation/usgan/model.py): the epoch/batch loop of    *)
(* _train_model, its best-state tracking, early stopping, exception        *)
(* recovery, and the checkpoint calls of _train_model and fit; the         *)
(* missingness-aware sample construction of DatasetForBRITS                *)
(* (pypots/imputation/brits/data.py) in its eager and lazy modes; and the  *)
(* batch loop of predict.                                                  *)
(***************************************************************************)
EXTENDS Integers, Naturals, Sequences, FiniteSets, TLC

(***************************************************************************)
(* Bounds of the model.                                                    *)
(***************************************************************************)
MaxEpochs == 5
MaxPatience == 2
MaxBatches == 2
MaxLoss == 1
MaxSteps == 2
MaxTrainSteps == 10
MaxFits == 2
MaxLifecycleEpochs == 2
MaxLifecycleTrainSteps == 4
MaxCells == 5
MaxLoaderCells == 2
MaxWorkers == 2
MaxTestSamples == 4
MaxBatchSize == 3

(***************************************************************************)
(* State.                                                                  *)
(*   configuration (constructor arguments and the size of the loader)      *)
(*   training state of the instance (attributes of self)                   *)
(*   locals and position of the running fit call                           *)
(*   what the call has made observable (checkpoint writes, log lines)      *)
(***************************************************************************)
VARIABLES
    epochs,                 \* self.epochs
    original_patience,      \* self.original_patience
    G_steps,                \* self.G_steps
    D_steps,                \* self.D_steps
    saving_path,            \* self.saving_path is not None
    model_saving_strategy,  \* self.model_saving_strategy: "none" | "best" | "better"
    n_batches,              \* len(training_loader)
    patience,               \* self.patience
    best_loss,              \* self.best_loss
    best_model_dict,        \* self.best_model_dict
    model_params,           \* number of in-place updates applied to the live parameters
    G_opt_steps,            \* G_optimizer.step() calls since construction
    D_opt_steps,            \* D_optimizer.step() calls since construction
    mode,                   \* self.model.training: "train" | "eval"
    pc,                     \* position of the control flow
    epoch,                  \* loop variable of `for epoch in range(self.epochs)`
    idx,                    \* loop variable of `for idx, data in enumerate(training_loader)`
    training_step,          \* local training_step
    G_collector,            \* local epoch_train_loss_G_collector, as [s, c, nan]
    epochs_run,             \* epochs of this call that reached their end
    n_improved,             \* how many of them took the improving branch
    last_improved,          \* index of the last one that did, -1 if none
    min_loss_seen,          \* least finite epoch loss of this call so far, +inf if none
    exit_path,              \* how the epoch loop of this call ended
    loaded,                 \* load_state_dict(best_model_dict) was executed by this call
    raised,                 \* exception that left the call, "none" if none
    ckpt_log,               \* checkpoint records written by this call, in order
    total_written,          \* checkpoint records written since construction
    log,                    \* log lines / warnings this call has emitted
    fit_calls_left,         \* fit calls the caller has yet to make
    val_set,                \* the caller passes a validation set to fit
    loss_source,            \* loader whose losses made the mean_loss last compared
    fault,                  \* exception raised inside the try block of this call
    ds_X,                   \* backing array "X": [n_samples][n_steps][n_features]
    ds_has_y,               \* the backing data holds labels "y"
    ds_lazy,                \* the data is a file path (lazy) rather than a dict (eager)
    return_labels,          \* self.return_labels
    processed_data,         \* self.processed_data (eager mode), None otherwise
    file_handle,            \* self.file_handle of each execution context's dataset copy
    handles_opened,         \* handles opened so far; a new handle is numbered next
    sample,                 \* the sample the last __getitem__ returned, << >> before
    sample_ctx,             \* the execution context that fetched it, 0 before
    test_set,               \* predict: the test samples in dataset order
    batch_size,             \* self.batch_size
    predict_pc,             \* predict: position of the control flow
    next_sample,            \* predict: first sample the loader has not yet served
    imputation_collector,   \* predict: local imputation_collector
    result                  \* predict: the array under the result key, None before

config == <<epochs, original_patience, G_steps, D_steps, saving_path,
            model_saving_strategy, n_batches, val_set>>
optim == <<model_params, G_opt_steps, D_opt_steps>>
improved == <<epochs_run, n_improved, last_improved, min_loss_seen>>
train_vars == <<epochs, original_patience, G_steps, D_steps, saving_path,
          model_saving_strategy, n_batches, patience, best_loss, best_model_dict,
          model_params, G_opt_steps, D_opt_steps, mode, pc, epoch, idx,
          training_step, G_collector, epochs_run, n_improved, last_improved,
          min_loss_seen,
          exit_path, loaded, raised, ckpt_log, total_written, log, fit_calls_left,
          val_set, loss_source, fault>>
data_vars == <<ds_X, ds_has_y, ds_lazy, return_labels, processed_data, file_handle,
               handles_opened, sample, sample_ctx>>
predict_vars == <<test_set, batch_size, predict_pc, next_sample,
                  imputation_collector, result>>
vars == <<train_vars, data_vars, predict_vars>>

None == [k |-> "None"]

(***************************************************************************)
(* Loss values: float("inf"), NaN, or the exact quotient s/c of small      *)
(* integers kept in lowest terms (two equal quotients are the same float). *)
(***************************************************************************)
Inf == [k |-> "inf"]
NaN == [k |-> "nan"]

RECURSIVE Gcd(_, _)
Gcd(a, b) == IF b = 0 THEN a ELSE Gcd(b, a % b)

Num(s, c) ==
    LET g == IF s = 0 THEN c ELSE Gcd(s, c)
    IN  [k |-> "num", s |-> s \div g, c |-> c \div g]

\* Python float `a < b`: False whenever either side is NaN.
Less(a, b) ==
    /\ a.k = "num"
    /\ \/ b.k = "inf"
       \/ b.k = "num" /\ a.s * b.c < b.s * a.c

\* np.mean over a collector [s, c, nan]: NaN for an empty list or one holding a NaN.
NpMean(coll) ==
    IF coll.nan \/ coll.c = 0 THEN NaN ELSE Num(coll.s, coll.c)

EmptyCollector == [s |-> 0, c |-> 0, nan |-> FALSE]

\* list.append of a loss value.
CollectorAppend(coll, v) ==
    IF v.k = "num"
    THEN [coll EXCEPT !.s = @ + v.s, !.c = @ + 1]
    ELSE [coll EXCEPT !.c = @ + 1, !.nan = TRUE]

(***************************************************************************)
(* Collaborators outside the orchestrator.                                 *)
(***************************************************************************)
\* torch: model.state_dict() hands out the parameter tensors themselves; the
\* dictionary shares storage with the live model (no copy is taken).
StateDict(params) ==
    [k |-> "state_dict", shares_storage |-> TRUE, taken_at |-> params]

\* What a state dictionary holds when it is read, given the live parameters.
DictContent(d, live) == IF d.shares_storage THEN live ELSE d.taken_at

\* Base-class constructor: patience=None disables early stopping; the attribute
\* then holds a value the countdown of _train_model never brings to zero.
PatienceAttr(arg) == IF arg.k = "None" THEN -1 ELSE arg.v

\* Base class, _auto_save_model_if_necessary: does this call write a record?
AutoSaveWrites(training_finished) ==
    /\ saving_path
    /\ model_saving_strategy # "none"
    /\ \/ ~training_finished /\ model_saving_strategy = "better"
       \/ training_finished /\ model_saving_strategy = "best"

\* Base class: the record name when the caller gives no saving_name.
DefaultSavingName == <<"USGAN">>

\* The record a checkpoint call writes (none when the strategy says no).
AutoSave(training_finished, saving_name, params, after_load) ==
    IF AutoSaveWrites(training_finished)
    THEN << [name |-> saving_name, training_finished |-> training_finished,
             content |-> params, after_load |-> after_load] >>
    ELSE << >>

(***************************************************************************)
(* Decisions of USGAN._train_model and USGAN.fit.                          *)
(***************************************************************************)
\* `if idx % self.G_steps == 0`
GeneratorFires(i) == i % G_steps = 0

\* `if idx % self.D_steps == 0`
DiscriminatorFires(i) == i % D_steps = 0

\* np.mean(step_train_loss_G_collector): the one generator loss of the batch,
\* NaN when the generator did not fire and the list is empty.
StepMeanG(i, lossG) ==
    IF GeneratorFires(i) THEN NpMean([s |-> lossG, c |-> 1, nan |-> FALSE])
    ELSE NpMean(EmptyCollector)

\* mean_loss = mean_epoch_train_G_loss = np.mean(epoch_train_loss_G_collector)
MeanLoss(coll) == NpMean(coll)

\* The smaller of the least finite epoch loss so far and a new epoch loss;
\* a loss that is not a finite number is left out.
LeastFinite(seen, loss) ==
    IF loss.k # "num" THEN seen
    ELSE IF seen.k # "num" THEN loss
    ELSE IF loss.s * seen.c < seen.s * loss.c THEN loss
    ELSE seen

\* Variant: every epoch loss that is a number is taken as an improvement.
ImprovesOnAnyNumber(mean_loss, best) == mean_loss.k = "num"

\* Variant: the comparison written `<=`.
ImprovesOrEqual(mean_loss, best) == Less(mean_loss, best) \/ mean_loss = best

\* `mean_loss = mean_epoch_train_G_loss`: the loader whose losses are compared
\* with best_loss; val_loader is a parameter the body never reads.
LossSource(val_loader_given) == "training_loader"

\* `if mean_loss < self.best_loss`
Improves(mean_loss, best) == Less(mean_loss, best)

\* Variant: a loop over the epochs that has no last one.
LastEpochNever(e) == FALSE

\* `for epoch in range(self.epochs)`: e is the last value of the range.
LastEpoch(e) == e + 1 = epochs

\* Variant: the countdown tested one epoch late.
PatienceExhaustedLate(p) == p < 0

\* Variant: the countdown tested with `<=`.
PatienceExhaustedNonPositive(p) == p <= 0

\* `if self.patience == 0` after the decrement
PatienceExhausted(p) == p = 0

\* Variant: the name made of the class name alone.
EpochSavingNameClassOnly(e, mean_loss) == <<"USGAN">>

\* saving_name=f"{self.__class__.__name__}_epoch{epoch}_loss{mean_loss}"
EpochSavingName(e, mean_loss) == <<"USGAN", e, mean_loss>>

\* Variant: the epoch call passing training_finished=True.
EpochTrainingFinishedTrue == TRUE

\* training_finished passed by the call inside the epoch loop
EpochTrainingFinished == FALSE

\* Variant: the final call passing training_finished=False.
FitTrainingFinishedFalse == FALSE

\* training_finished passed by the call at the end of fit
FitTrainingFinished == TRUE

\* self._auto_save_model_if_necessary(training_finished=False, saving_name=...)
EpochSave(e, mean_loss, params) ==
    AutoSave(EpochTrainingFinished, EpochSavingName(e, mean_loss), params, FALSE)

\* Variant: fit saving the model itself, whatever the strategy.
FitSaveUnconditional(params) ==
    << [name |-> DefaultSavingName, training_finished |-> TRUE,
        content |-> params, after_load |-> TRUE] >>

\* self._auto_save_model_if_necessary(training_finished=True)
FitSave(params) ==
    AutoSave(FitTrainingFinished, DefaultSavingName, params, TRUE)

\* Variant: the branches of the except clause swapped.
NoSnapshotInverted(d) == d # None

\* Variant: the except clause never re-raises.
NoSnapshotNever(d) == FALSE

\* `if self.best_model_dict is None` in the except clause
NoSnapshot(d) == d = None

\* Variant: the check written as the NaN test its message speaks of.
BestLossIsNan(best) == best = NaN

\* `if np.equal(self.best_loss, float("inf"))`
BestLossIsInf(best) == best = Inf

\* What the except clause emits when a snapshot exists: the RuntimeWarning
\* object is built and dropped, nothing is issued.
RecoveryEmits == {}

\* logger.warning("DeprecationWarning: The method impute is deprecated. ...")
DeprecationLine == [level |-> "warning", msg |-> "DeprecationWarning"]

\* The warning the except clause builds when it goes on with a snapshot.
InterruptedLine == [level |-> "warning", msg |-> "Training got interrupted"]

\* logger.error(f"Exception: {e}")
ErrorLine == [level |-> "error", msg |-> "Exception"]

Losses == 0..MaxLoss
Strategies == {"none", "best", "better"}
Idle == pc \in {"idle", "returned", "raised"}

(***************************************************************************)
(* DatasetForBRITS: values, masks, time gaps and the two directions.       *)
(* A time series is a sequence of time steps, a time step a sequence of    *)
(* feature values. Values are float entries by kind: missing (NaN), the    *)
(* two infinities, and a finite observation.                               *)
(***************************************************************************)
XValues == {"nan", "inf", "-inf", "1.0"}

\* torch.isnan
IsNan(v) == v = "nan"

\* (~torch.isnan(X)).to(torch.float32), per entry
MissingMaskEntry(v) == IF IsNan(v) THEN 0 ELSE 1

\* torch.nan_to_num, per entry: NaN becomes 0, the infinities become the
\* largest and the smallest finite value of the dtype.
NanToNumEntry(v) ==
    CASE v = "nan" -> "0.0"
      [] v = "inf" -> "max"
      [] v = "-inf" -> "-max"
      [] OTHER -> v

\* A series with each entry replaced by Op(entry).
MissingMask(X) == [t \in 1..Len(X) |-> [f \in 1..Len(X[t]) |-> MissingMaskEntry(X[t][f])]]
NanToNum(X) == [t \in 1..Len(X) |-> [f \in 1..Len(X[t]) |-> NanToNumEntry(X[t][f])]]

\* torch.flip along the time axis of one series (dims=[0] on [n_steps, n_features]).
Flip(series) == [t \in 1..Len(series) |-> series[Len(series) + 1 - t]]

\* torch.flip(..., dims=[1]) on [n_samples, n_steps, n_features].
FlipBatch(batch) == [i \in 1..Len(batch) |-> Flip(batch[i])]

\* The interval between two consecutive time steps.
StepGap == 1

\* _parse_delta_torch on one series: the first row is 0; a later row is the
\* step gap where the previous step was observed, and the step gap plus the
\* previous row where it was not.
RECURSIVE DeltaRow(_, _)
DeltaRow(mask, t) ==
    IF t = 1
    THEN [f \in 1..Len(mask[1]) |-> 0]
    ELSE LET before == DeltaRow(mask, t - 1)
         IN  [f \in 1..Len(mask[t]) |->
                 IF mask[t - 1][f] = 1 THEN StepGap ELSE StepGap + before[f]]

\* Variant: the accumulation is reset by the observation of the current step.
RECURSIVE DeltaRowCurrentStep(_, _)
DeltaRowCurrentStep(mask, t) ==
    IF t = 1
    THEN [f \in 1..Len(mask[1]) |-> 0]
    ELSE LET before == DeltaRowCurrentStep(mask, t - 1)
         IN  [f \in 1..Len(mask[t]) |->
                 IF mask[t][f] = 1 THEN StepGap ELSE StepGap + before[f]]

\* Variant: the first row already counts one step gap.
RECURSIVE DeltaRowFromGap(_, _)
DeltaRowFromGap(mask, t) ==
    IF t = 1
    THEN [f \in 1..Len(mask[1]) |-> StepGap]
    ELSE LET before == DeltaRowFromGap(mask, t - 1)
         IN  [f \in 1..Len(mask[t]) |->
                 IF mask[t - 1][f] = 1 THEN StepGap ELSE StepGap + before[f]]

ParseDeltaCurrentStep(mask) == [t \in 1..Len(mask) |-> DeltaRowCurrentStep(mask, t)]
ParseDeltaFromGap(mask) == [t \in 1..Len(mask) |-> DeltaRowFromGap(mask, t)]

\* _parse_delta_torch(missing_mask) for a 2-D mask.
ParseDelta(mask) == [t \in 1..Len(mask) |-> DeltaRow(mask, t)]

\* _parse_delta_torch(missing_mask) for a 3-D mask: every sample on its own.
ParseDeltaBatch(masks) == [i \in 1..Len(masks) |-> ParseDelta(masks[i])]

\* Variant: the forward delta of every sample reversed in time.
BackwardDeltaArrayReflected(forward_delta, backward_missing_mask) ==
    FlipBatch(forward_delta)

\* Eager mode, backward delta: computed from the backward mask.
BackwardDeltaArray(forward_delta, backward_missing_mask) ==
    ParseDeltaBatch(backward_missing_mask)

\* Variant: the forward delta reversed in time.
BackwardDeltaFileReflected(forward_deltas, backward_missing_mask) ==
    Flip(forward_deltas)

\* Lazy mode, backward delta: computed from the backward mask.
BackwardDeltaFile(forward_deltas, backward_missing_mask) ==
    ParseDelta(backward_missing_mask)

\* DatasetForBRITS.__init__, eager branch: self.processed_data.
ProcessedData(X) ==
    LET forward_missing_mask == [i \in 1..Len(X) |-> MissingMask(X[i])]
        forward_X == [i \in 1..Len(X) |-> NanToNum(X[i])]
        forward_delta == ParseDeltaBatch(forward_missing_mask)
        backward_X == FlipBatch(forward_X)
        backward_missing_mask == FlipBatch(forward_missing_mask)
        backward_delta == BackwardDeltaArray(forward_delta, backward_missing_mask)
    IN  [forward |-> [X |-> forward_X,
                      missing_mask |-> forward_missing_mask,
                      delta |-> forward_delta],
         backward |-> [X |-> backward_X,
                       missing_mask |-> backward_missing_mask,
                       delta |-> backward_delta]]

\* The label of sample i as the dataset hands it out: y[idx] cast to long.
Label(i) == <<"y", i>>

\* Eager mode: the label is appended when labels exist and are requested.
AppendsLabelArray(y_given, wants_labels) == y_given /\ wants_labels

\* Variant: the label is appended whenever the file has "y".
AppendsLabelFileWheneverPresent(y_in_file, wants_labels) == y_in_file

\* Lazy mode: the label is appended when the file has "y" and labels are requested.
AppendsLabelFile(y_in_file, wants_labels) == y_in_file /\ wants_labels

\* _fetch_data_from_array(idx): the sample is read off self.processed_data.
FetchDataFromArray(pd, y_given, wants_labels, i) ==
    LET sample_list == <<i,
                         pd.forward.X[i],
                         pd.forward.missing_mask[i],
                         pd.forward.delta[i],
                         pd.backward.X[i],
                         pd.backward.missing_mask[i],
                         pd.backward.delta[i]>>
    IN  IF AppendsLabelArray(y_given, wants_labels)
        THEN Append(sample_list, Label(i))
        ELSE sample_list

\* _fetch_data_from_file(idx), after the handle is there: the sample is
\* computed from row idx of the file's "X".
FetchDataFromFile(X, y_in_file, wants_labels, i) ==
    LET missing_mask == MissingMask(X[i])
        X_filled == NanToNum(X[i])
        forward == [X |-> X_filled,
                    missing_mask |-> missing_mask,
                    deltas |-> ParseDelta(missing_mask)]
        backward_mask == Flip(forward.missing_mask)
        backward == [X |-> Flip(forward.X),
                     missing_mask |-> backward_mask,
                     deltas |-> BackwardDeltaFile(forward.deltas, backward_mask)]
        sample_list == <<i,
                         forward.X,
                         forward.missing_mask,
                         forward.deltas,
                         backward.X,
                         backward.missing_mask,
                         backward.deltas>>
    IN  IF AppendsLabelFile(y_in_file, wants_labels)
        THEN Append(sample_list, Label(i))
        ELSE sample_list

\* Variant: a handle is opened at every access.
NeedsOpenAlways(handle) == TRUE

\* _fetch_data_from_file: a handle is opened when this copy has none.
NeedsOpen(handle) == handle = 0

\* _open_file_handle: every call yields a handle that did not exist before.
OpenFileHandle(opened) == opened + 1

\* _assemble_input_for_testing of the BRITS classifier: the names a test
\* batch is unpacked into.
TestingUnpackArity == 7

\* Data sets of shape [n_samples, n_steps, n_features] with at most max_cells entries.
Shapes(max_cells) ==
    {s \in (1..max_cells) \X (1..max_cells) \X (1..max_cells) :
        s[1] * s[2] * s[3] <= max_cells}
Arrays(max_cells) ==
    UNION {[1..s[1] -> [1..s[2] -> [1..s[3] -> XValues]]] : s \in Shapes(max_cells)}

(***************************************************************************)
(* predict: what the model returns for one test sample, and the batches    *)
(* a loader with shuffle=False serves.                                     *)
(***************************************************************************)
\* self.model.forward(inputs, training=False)["imputed_data"], per sample.
ImputedData(x) == <<"imputed", x>>

\* The next batch of a sequential loader: up to batch_size samples, in order.
NextBatch(data, from, size) ==
    [j \in 1..(IF Len(data) - from + 1 < size THEN Len(data) - from + 1 ELSE size)
        |-> data[from + j - 1]]

\* Variant: the batch output is put in front of the collected ones.
CollectInFront(collector, batch_output) == <<batch_output>> \o collector

\* imputation_collector.append(imputed_data)
Collect(collector, batch_output) == Append(collector, batch_output)

\* torch.cat(imputation_collector): the batches joined in collection order.
RECURSIVE TorchCat(_)
TorchCat(collector) ==
    IF collector = << >> THEN << >>
    ELSE Head(collector) \o TorchCat(Tail(collector))

(***************************************************************************)
(* The states the other components rest in while one of them is explored.  *)
(***************************************************************************)
\* No dataset is under study: one sample of one missing entry, never fetched.
NoDataset ==
    /\ ds_X = <<<<<<"nan">>>>>>
    /\ ds_has_y = FALSE
    /\ ds_lazy = FALSE
    /\ return_labels = FALSE
    /\ processed_data = None
    /\ file_handle = <<0>>
    /\ handles_opened = 0
    /\ sample = << >>
    /\ sample_ctx = 0

\* No predict call is under study.
NoPredict ==
    /\ test_set = << >>
    /\ batch_size = 1
    /\ predict_pc = "idle"
    /\ next_sample = 1
    /\ imputation_collector = << >>
    /\ result = None

\* The model is constructed and never trained: no epochs, no checkpoints.
NoTraining ==
    /\ epochs = 0
    /\ original_patience = PatienceAttr(None)
    /\ patience = PatienceAttr(None)
    /\ G_steps = 1
    /\ D_steps = 1
    /\ saving_path = FALSE
    /\ model_saving_strategy = "none"
    /\ n_batches = 1
    /\ val_set = FALSE
    /\ best_loss = Inf
    /\ best_model_dict = None
    /\ model_params = 0
    /\ G_opt_steps = 0
    /\ D_opt_steps = 0
    /\ mode = "train"
    /\ pc = "idle"
    /\ epoch = 0
    /\ idx = 0
    /\ training_step = 0
    /\ G_collector = EmptyCollector
    /\ epochs_run = 0
    /\ n_improved = 0
    /\ last_improved = -1
    /\ min_loss_seen = Inf
    /\ exit_path = "none"
    /\ loaded = FALSE
    /\ raised = "none"
    /\ ckpt_log = << >>
    /\ total_written = 0
    /\ log = {}
    /\ fit_calls_left = 0
    /\ loss_source = "none"
    /\ fault = "none"

(***************************************************************************)
(* Init: the instance after __init__.                                      *)
(***************************************************************************)
Constructed(max_epochs, max_train_steps) ==
    /\ epochs \in 0..max_epochs
    /\ \E arg \in {None} \cup {[k |-> "int", v |-> n] : n \in 1..MaxPatience} :
          /\ original_patience = PatienceAttr(arg)
          /\ patience = PatienceAttr(arg)
    /\ G_steps \in 1..MaxSteps
    /\ D_steps \in 1..MaxSteps
    /\ saving_path \in BOOLEAN
    /\ model_saving_strategy \in Strategies
    /\ n_batches \in 1..MaxBatches
    /\ epochs * n_batches <= max_train_steps
    /\ best_loss = Inf
    /\ best_model_dict = None
    /\ model_params = 0
    /\ G_opt_steps = 0
    /\ D_opt_steps = 0
    /\ mode = "train"
    /\ pc = "idle"
    /\ epoch = 0
    /\ idx = 0
    /\ training_step = 0
    /\ G_collector = EmptyCollector
    /\ epochs_run = 0
    /\ n_improved = 0
    /\ last_improved = -1
    /\ min_loss_seen = Inf
    /\ exit_path = "none"
    /\ loaded = FALSE
    /\ raised = "none"
    /\ ckpt_log = << >>
    /\ total_written = 0
    /\ log = {}
    /\ loss_source = "none"
    /\ fault = "none"

\* A fresh instance on which the caller makes one fit call (and any predict calls).
Init ==
    /\ Constructed(MaxEpochs, MaxTrainSteps)
    /\ fit_calls_left = 1
    /\ val_set = FALSE
    /\ NoDataset
    /\ NoPredict

\* A fresh instance on which the caller makes several fit calls in a row, every
\* one of them with a validation set or every one without.
InitLifecycle ==
    /\ Constructed(MaxLifecycleEpochs, MaxLifecycleTrainSteps)
    /\ fit_calls_left = MaxFits
    /\ val_set \in BOOLEAN
    /\ NoDataset
    /\ NoPredict

(***************************************************************************)
(* fit -> _train_model up to the first epoch: best_loss and best_model_dict *)
(* are reset, self.patience is not; the collectors are created once, before *)
(* the epoch loop; model.train() opens the first epoch.                     *)
(***************************************************************************)
FitStart ==
    /\ Idle
    /\ fit_calls_left > 0
    /\ fit_calls_left' = fit_calls_left - 1
    /\ best_loss' = Inf
    /\ best_model_dict' = None
    /\ training_step' = 0
    /\ G_collector' = EmptyCollector
    /\ epoch' = 0
    /\ idx' = 0
    /\ epochs_run' = 0
    /\ n_improved' = 0
    /\ last_improved' = -1
    /\ min_loss_seen' = Inf
    /\ loaded' = FALSE
    /\ raised' = "none"
    /\ ckpt_log' = << >>
    /\ log' = {}
    /\ loss_source' = "none"
    /\ fault' = "none"
    /\ IF epochs = 0
       THEN /\ pc' = "after_loop"
            /\ exit_path' = "all_epochs"
            /\ mode' = mode
       ELSE /\ pc' = "batch"
            /\ exit_path' = "none"
            /\ mode' = "train"
    /\ UNCHANGED <<data_vars, predict_vars>>
    /\ UNCHANGED <<config, optim, patience, total_written>>

(***************************************************************************)
(* One pass of the batch loop body. With `raises` an exception is raised   *)
(* while the batch is fetched; the except clause of the loop catches it.   *)
(***************************************************************************)
TrainStep(lossG, raises) ==
    /\ pc = "batch"
    /\ IF raises
       THEN /\ pc' = "except"
            /\ fault' = "fetch"
            /\ UNCHANGED <<optim, idx, training_step, G_collector>>
       ELSE /\ fault' = fault
            /\ training_step' = training_step + 1
            /\ G_opt_steps' = G_opt_steps + (IF GeneratorFires(idx) THEN 1 ELSE 0)
            /\ D_opt_steps' = D_opt_steps + (IF DiscriminatorFires(idx) THEN 1 ELSE 0)
            /\ model_params' = model_params
                                + (IF GeneratorFires(idx) THEN 1 ELSE 0)
                                + (IF DiscriminatorFires(idx) THEN 1 ELSE 0)
            /\ G_collector' = CollectorAppend(G_collector, StepMeanG(idx, lossG))
            /\ idx' = idx + 1
            /\ pc' = IF idx + 1 = n_batches THEN "epoch_end" ELSE "batch"
    /\ UNCHANGED <<data_vars, predict_vars>>
    /\ UNCHANGED <<config, patience, best_loss, best_model_dict, mode, epoch,
                   improved, exit_path, loaded, raised, ckpt_log, total_written,
                   log, fit_calls_left, loss_source>>

(***************************************************************************)
(* End of an epoch: the improvement rule, the checkpoint call, the         *)
(* patience countdown, and the step to the next epoch or out of the loop.  *)
(* The checkpoint call is inside the try block: when the write fails       *)
(* (write_ok is false) its exception goes to the except clause.            *)
(***************************************************************************)
EpochEnd(write_ok) ==
    /\ pc = "epoch_end"
    /\ LET mean_loss == MeanLoss(G_collector)
           better == Improves(mean_loss, best_loss)
           attempt == IF better
                      THEN EpochSave(epoch, mean_loss, model_params)
                      ELSE << >>
           written == IF write_ok THEN attempt ELSE << >>
           failed == ~write_ok
           stop == ~better /\ PatienceExhausted(patience - 1)
       IN  /\ write_ok \/ attempt # << >>
           /\ loss_source' = LossSource(val_set)
           /\ epochs_run' = epochs_run + 1
           /\ n_improved' = n_improved + (IF better THEN 1 ELSE 0)
           /\ last_improved' = IF better THEN epoch ELSE last_improved
           /\ min_loss_seen' = LeastFinite(min_loss_seen, mean_loss)
           /\ IF better
              THEN /\ best_loss' = mean_loss
                   /\ best_model_dict' = StateDict(model_params)
                   /\ patience' = original_patience
              ELSE /\ patience' = patience - 1
                   /\ UNCHANGED <<best_loss, best_model_dict>>
           /\ ckpt_log' = ckpt_log \o written
           /\ total_written' = total_written + Len(written)
           /\ log' = IF stop
                     THEN log \cup {[level |-> "info", msg |-> "Exceeded the training patience"]}
                     ELSE log
           /\ IF failed
              THEN /\ pc' = "except"
                   /\ fault' = "save"
                   /\ UNCHANGED <<epoch, idx, mode, exit_path>>
              ELSE IF stop
              THEN /\ pc' = "after_loop"
                   /\ exit_path' = "patience"
                   /\ UNCHANGED <<epoch, idx, mode, fault>>
              ELSE IF LastEpoch(epoch)
              THEN /\ pc' = "after_loop"
                   /\ exit_path' = "all_epochs"
                   /\ UNCHANGED <<epoch, idx, mode, fault>>
              ELSE /\ pc' = "batch"
                   /\ epoch' = epoch + 1
                   /\ idx' = 0
                   /\ mode' = "train"
                   /\ UNCHANGED <<exit_path, fault>>
    /\ UNCHANGED <<data_vars, predict_vars>>
    /\ UNCHANGED <<config, optim, training_step, G_collector, loaded, raised,
                   fit_calls_left>>

(***************************************************************************)
(* The except clause of _train_model.                                      *)
(***************************************************************************)
HandleException ==
    /\ pc = "except"
    /\ exit_path' = "interrupted"
    /\ IF NoSnapshot(best_model_dict)
       THEN /\ pc' = "raised"
            /\ raised' = "RuntimeError"
            /\ log' = log \cup {ErrorLine}
       ELSE /\ pc' = "after_loop"
            /\ raised' = raised
            /\ log' = log \cup {ErrorLine} \cup RecoveryEmits
    /\ UNCHANGED <<data_vars, predict_vars>>
    /\ UNCHANGED <<config, optim, patience, best_loss, best_model_dict, mode,
                   epoch, idx, training_step, G_collector, improved, loaded,
                   ckpt_log, total_written, fit_calls_left, loss_source, fault>>

(***************************************************************************)
(* After the try statement: the best_loss check that ends _train_model.    *)
(***************************************************************************)
CheckBestLoss ==
    /\ pc = "after_loop"
    /\ IF BestLossIsInf(best_loss)
       THEN /\ pc' = "raised"
            /\ raised' = "ValueError"
            /\ log' = log
       ELSE /\ pc' = "trained"
            /\ raised' = raised
            /\ log' = log \cup {[level |-> "info", msg |-> "Finished training."]}
    /\ UNCHANGED <<data_vars, predict_vars>>
    /\ UNCHANGED <<config, optim, patience, best_loss, best_model_dict, mode,
                   epoch, idx, training_step, G_collector, improved, exit_path,
                   loaded, ckpt_log, total_written, fit_calls_left, loss_source,
                   fault>>

(***************************************************************************)
(* The rest of fit: load the best dictionary, freeze, save if necessary.   *)
(***************************************************************************)
FitFinish ==
    /\ pc = "trained"
    /\ LET params == DictContent(best_model_dict, model_params)
           written == FitSave(params)
       IN  /\ model_params' = params
           /\ ckpt_log' = ckpt_log \o written
           /\ total_written' = total_written + Len(written)
    /\ loaded' = TRUE
    /\ mode' = "eval"
    /\ pc' = "returned"
    /\ UNCHANGED <<data_vars, predict_vars>>
    /\ UNCHANGED <<config, G_opt_steps, D_opt_steps, patience, best_loss,
                   best_model_dict, epoch, idx, training_step, G_collector,
                   improved, exit_path, raised, log, fit_calls_left, loss_source,
                   fault>>

(***************************************************************************)
(* predict: the model is put in eval mode and run over the test loader.    *)
(***************************************************************************)
\* Variant: a predict call that also saves the model it has run.
PredictCallSaving ==
    /\ Idle
    /\ mode' = "eval"
    /\ ckpt_log' = ckpt_log \o FitSaveUnconditional(model_params)
    /\ total_written' = total_written + 1
    /\ UNCHANGED <<data_vars, predict_vars>>
    /\ UNCHANGED <<config, optim, patience, best_loss, best_model_dict, pc,
                   epoch, idx, training_step, G_collector, improved, exit_path,
                   loaded, raised, fit_calls_left, loss_source, fault>>

\* What a predict call does to the instance, its logging aside.
PredictCall ==
    /\ Idle
    /\ mode' = "eval"
    /\ UNCHANGED <<data_vars, predict_vars>>
    /\ UNCHANGED <<config, optim, patience, best_loss, best_model_dict, pc,
                   epoch, idx, training_step, G_collector, improved, exit_path,
                   loaded, raised, ckpt_log, total_written, fit_calls_left,
                   loss_source, fault>>

Predict ==
    /\ PredictCall
    /\ log' = log

\* impute (and classify of the classifier): the deprecation warning, then
\* predict, of whose result one entry is returned.
Impute ==
    /\ log' = log \cup {DeprecationLine}
    /\ PredictCall

Next ==
    \/ FitStart
    \/ \E lossG \in Losses, raises \in BOOLEAN : TrainStep(lossG, raises)
    \/ \E write_ok \in BOOLEAN : EpochEnd(write_ok)
    \/ HandleException
    \/ CheckBestLoss
    \/ FitFinish
    \/ Predict
    \/ Impute

Spec == Init /\ [][Next]_vars

SpecLifecycle == InitLifecycle /\ [][Next]_vars

\* One fit call on a fresh instance whose control flow, once started, keeps
\* going: a single thread runs the call and nothing suspends it.
InitRun ==
    /\ Constructed(MaxLifecycleEpochs, MaxLifecycleTrainSteps)
    /\ fit_calls_left = 1
    /\ val_set = FALSE
    /\ NoDataset
    /\ NoPredict

SpecRun == InitRun /\ [][Next]_vars /\ WF_vars(Next)

(***************************************************************************)
(* DatasetForBRITS(data, return_labels): the eager branch of __init__      *)
(* fills self.processed_data; in lazy mode nothing is read yet. The loader *)
(* hands every one of its execution contexts (the main process when there  *)
(* are no workers, else each worker process) its own copy of the dataset   *)
(* object, whose file_handle is None.                                      *)
(***************************************************************************)
DatasetBuilt(max_cells, max_contexts, label_flags) ==
    /\ ds_X \in Arrays(max_cells)
    /\ ds_has_y \in label_flags
    /\ return_labels \in label_flags
    /\ ds_lazy \in BOOLEAN
    /\ processed_data = (IF ds_lazy THEN None ELSE ProcessedData(ds_X))
    /\ file_handle \in UNION {[1..k -> {0}] : k \in 1..max_contexts}
    /\ handles_opened = 0
    /\ sample = << >>
    /\ sample_ctx = 0

\* A training data set (labels present and requested) read in one context.
InitDataset ==
    /\ DatasetBuilt(MaxCells, 1, {TRUE})
    /\ NoTraining
    /\ NoPredict

\* A small data set, with or without labels, requested or not, read by
\* one or several contexts.
InitLoader ==
    /\ DatasetBuilt(MaxLoaderCells, MaxWorkers, BOOLEAN)
    /\ NoTraining
    /\ NoPredict

(***************************************************************************)
(* __getitem__(idx) in execution context ctx. Lazy mode: the context's     *)
(* copy opens its handle if it has none, then builds the sample from row   *)
(* idx of the file. Eager mode: the sample is sliced off processed_data.   *)
(***************************************************************************)
GetItem(ctx, i) ==
    /\ ctx \in DOMAIN file_handle
    /\ i \in 1..Len(ds_X)
    /\ IF ds_lazy
       THEN /\ IF NeedsOpen(file_handle[ctx])
               THEN /\ file_handle' =
                          [file_handle EXCEPT ![ctx] = OpenFileHandle(handles_opened)]
                    /\ handles_opened' = OpenFileHandle(handles_opened)
               ELSE UNCHANGED <<file_handle, handles_opened>>
            /\ sample' = FetchDataFromFile(ds_X, ds_has_y, return_labels, i)
       ELSE /\ sample' = FetchDataFromArray(processed_data, ds_has_y, return_labels, i)
            /\ UNCHANGED <<file_handle, handles_opened>>
    /\ sample_ctx' = ctx
    /\ UNCHANGED <<ds_X, ds_has_y, ds_lazy, return_labels, processed_data>>
    /\ UNCHANGED <<train_vars, predict_vars>>

NextDataset == \E ctx \in 1..MaxWorkers, i \in 1..MaxCells : GetItem(ctx, i)

SpecDataset == InitDataset /\ [][NextDataset]_vars

SpecLoader == InitLoader /\ [][NextDataset]_vars

(***************************************************************************)
(* predict(test_set), step by step: model.eval() and the loader built with *)
(* shuffle=False; one batch per loop iteration, its output appended to the *)
(* collector; torch.cat over the collector, which raises on an empty list. *)
(***************************************************************************)
InitPredict ==
    /\ test_set \in UNION {[1..n -> 0..1] : n \in 0..MaxTestSamples}
    /\ batch_size \in 1..MaxBatchSize
    /\ predict_pc = "idle"
    /\ next_sample = 1
    /\ imputation_collector = << >>
    /\ result = None
    /\ NoTraining
    /\ NoDataset

PredictStart ==
    /\ Idle
    /\ predict_pc \in {"idle", "returned", "raised"}
    /\ mode' = "eval"
    /\ predict_pc' = "loop"
    /\ next_sample' = 1
    /\ imputation_collector' = << >>
    /\ result' = None
    /\ UNCHANGED <<test_set, batch_size>>
    /\ UNCHANGED data_vars
    /\ UNCHANGED <<config, optim, patience, best_loss, best_model_dict, pc,
                   epoch, idx, training_step, G_collector, improved, exit_path,
                   loaded, raised, ckpt_log, total_written, log, fit_calls_left,
                   loss_source, fault>>

PredictBatch ==
    /\ predict_pc = "loop"
    /\ next_sample <= Len(test_set)
    /\ LET data == NextBatch(test_set, next_sample, batch_size)
           imputed_data == [j \in 1..Len(data) |-> ImputedData(data[j])]
       IN  /\ imputation_collector' = Collect(imputation_collector, imputed_data)
           /\ next_sample' = next_sample + Len(data)
    /\ UNCHANGED <<test_set, batch_size, predict_pc, result>>
    /\ UNCHANGED <<train_vars, data_vars>>

PredictReturn ==
    /\ predict_pc = "loop"
    /\ next_sample > Len(test_set)
    /\ IF imputation_collector = << >>
       THEN /\ predict_pc' = "raised"
            /\ UNCHANGED result
       ELSE /\ predict_pc' = "returned"
            /\ result' = TorchCat(imputation_collector)
    /\ UNCHANGED <<test_set, batch_size, next_sample, imputation_collector>>
    /\ UNCHANGED <<train_vars, data_vars>>

NextPredict ==
    \/ PredictStart
    \/ PredictBatch
    \/ PredictReturn

SpecPredict == InitPredict /\ [][NextPredict]_vars

(***************************************************************************)
(* Properties.                                                             *)
(***************************************************************************)
LoopEnded == pc \in {"after_loop", "trained", "returned", "raised"}
Snapshot == best_model_dict # None
FinalRecords == {i \in 1..Len(ckpt_log) : ckpt_log[i].training_finished}

\* C1: at the end of every epoch, exactly when the epoch loss is strictly below
\* best_loss, best_loss becomes that loss, best_model_dict is replaced by the
\* model's state dictionary and patience is reset to original_patience; in
\* every other case best_loss and best_model_dict stay as they are and
\* patience goes down by exactly one.
C1_ImprovementRule ==
    [][pc = "epoch_end" =>
        LET loss == NpMean(G_collector)
        IN  IF Less(loss, best_loss)
            THEN /\ best_loss' = loss
                 /\ best_model_dict' = StateDict(model_params)
                 /\ best_model_dict' # best_model_dict
                 /\ patience' = original_patience
            ELSE /\ best_loss' = best_loss
                 /\ best_model_dict' = best_model_dict
                 /\ patience' = patience - 1
                 /\ patience' # original_patience]_vars

\* C1 witness: one epoch has improved and a later one, whose loss equals
\* best_loss, has just gone through the non-improving branch.
C1_Witness ==
    /\ epochs_run >= 2
    /\ n_improved = 1
    /\ last_improved = 0
    /\ original_patience > 0
    /\ patience = original_patience - 1
    /\ NpMean(G_collector) = best_loss

\* The case of C2: positive patience p, more than 2+p epochs configured, the
\* loss has improved at epochs 0, 1, 2 and at no later epoch, no exception.
C2_Case ==
    /\ original_patience > 0
    /\ epochs > 2 + original_patience
    /\ n_improved = 3
    /\ last_improved = 2
    /\ pc # "except"
    /\ exit_path # "interrupted"

\* C2: in that case the loop halts exactly at epoch 2+p: no epoch beyond it
\* starts, and when the loop is over exactly p non-improving epochs were run
\* and the loop ended on exhausted patience.
C2_HaltsAtEpoch2PlusPatience ==
    C2_Case =>
        /\ epoch <= 2 + original_patience
        /\ epochs_run <= 3 + original_patience
        /\ epochs_run = 3 + original_patience => LoopEnded
        /\ LoopEnded => /\ epochs_run = 3 + original_patience
                        /\ epoch = 2 + original_patience
                        /\ exit_path = "patience"

\* C2 witness: such a run has returned, halted by patience at epoch 2+p.
C2_Witness ==
    /\ C2_Case
    /\ pc = "returned"
    /\ exit_path = "patience"
    /\ epochs_run = 3 + original_patience

\* C3: with early stopping disabled (patience None) the loop runs the full
\* configured number of epochs whatever the losses are: a non-improving epoch
\* neither ends the loop nor interrupts it.
C3_DisabledPatienceRunsAllEpochs ==
    original_patience < 0 =>
        /\ exit_path # "patience"
        /\ pc \in {"batch", "epoch_end"} => exit_path = "none"
        /\ (LoopEnded /\ exit_path # "interrupted") =>
               /\ epochs_run = epochs
               /\ exit_path = "all_epochs"

\* C3 witness: a run without early stopping has returned after all its epochs,
\* at least two of them non-improving.
C3_Witness ==
    /\ original_patience < 0
    /\ pc = "returned"
    /\ epochs >= 3
    /\ epochs_run = epochs
    /\ n_improved + 2 <= epochs_run

\* C4: an exception in the loop after an improving epoch does not leave
\* _train_model: the call goes on to its end, and when fit has returned the
\* best dictionary has been loaded into the live model and the model is in
\* eval mode.
C4_RecoveredInterruptionReturns ==
    (exit_path = "interrupted" /\ Snapshot) =>
        /\ pc \in {"after_loop", "trained", "returned"}
        /\ raised = "none"
        /\ best_loss # Inf
        /\ pc = "returned" =>
               /\ loaded
               /\ mode = "eval"
               /\ model_params = DictContent(best_model_dict, model_params)

\* C4 witness: fit has returned from an interrupted run.
C4_Witness ==
    /\ exit_path = "interrupted"
    /\ pc = "returned"
    /\ loaded
    /\ mode = "eval"

\* C5: an exception in the loop before any improving epoch leaves
\* _train_model as a RuntimeError and fit aborts: nothing is loaded, fit does
\* not put the model in eval mode, and the final checkpoint call is not made.
C5_EarlyInterruptionIsFatal ==
    /\ [](exit_path = "interrupted" /\ ~Snapshot =>
            /\ pc = "raised"
            /\ raised = "RuntimeError"
            /\ ~loaded
            /\ FinalRecords = {})
    /\ [](raised = "RuntimeError" => exit_path = "interrupted" /\ ~Snapshot)
    /\ [][(pc = "except" /\ ~Snapshot) =>
            /\ pc' = "raised"
            /\ raised' = "RuntimeError"
            /\ mode = "train"
            /\ mode' = "train"
            /\ UNCHANGED <<model_params, loaded, ckpt_log, total_written>>]_vars

\* C5 witness: a fit configured to save its best model has been aborted by an
\* exception raised in its second epoch, the first not having improved.
C5_Witness ==
    /\ raised = "RuntimeError"
    /\ pc = "raised"
    /\ epochs_run >= 1
    /\ saving_path
    /\ model_saving_strategy = "best"

\* C6: fit returns normally only with best_loss below +infinity and a best
\* dictionary; whichever way the loop ended, a best_loss still at +infinity
\* makes the call end in a fatal error.
C6_NeverReturnsWithInfBestLoss ==
    /\ pc \in {"trained", "returned"} => best_loss # Inf /\ Snapshot
    /\ (exit_path # "none" /\ best_loss = Inf) => pc \in {"after_loop", "raised"}
    /\ (pc = "raised" /\ exit_path # "interrupted") =>
           raised = "ValueError" /\ best_loss = Inf
    /\ raised = "ValueError" => best_loss = Inf /\ ~loaded /\ FinalRecords = {}

\* C6 witness: the loop ran out of patience without a single improving epoch
\* and the call ended in the fatal error.
C6_Witness ==
    /\ raised = "ValueError"
    /\ exit_path = "patience"
    /\ epochs_run >= 1
    /\ best_loss = Inf

\* C7: whenever training was interrupted by an exception and the call went on
\* with the last good snapshot, the warning about it has been emitted.
C7_FallbackWarns ==
    (exit_path = "interrupted" /\ pc \in {"after_loop", "trained", "returned"}) =>
        InterruptedLine \in log

\* C8: under strategy `better` with a saving path (and a store that takes the
\* writes), the records written by a fit call are exactly one per improving epoch, each written by the epoch
\* that improved and named after it; improving epochs 0, 1, 2 followed by
\* non-improving epochs 3, 4 give exactly 3 records.
C8_BetterWritesPerImprovingEpoch ==
    (model_saving_strategy = "better" /\ saving_path /\ fault # "save") =>
        /\ Len(ckpt_log) = n_improved
        /\ FinalRecords = {}
        /\ \A i \in 1..Len(ckpt_log) :
              /\ ckpt_log[i].name[1] = "USGAN"
              /\ ckpt_log[i].name[2] \in 0..last_improved
              /\ i > 1 => ckpt_log[i - 1].name[2] < ckpt_log[i].name[2]
        /\ Len(ckpt_log) > 0 =>
              /\ ckpt_log[Len(ckpt_log)].name[2] = last_improved
              /\ ckpt_log[Len(ckpt_log)].name[3] = best_loss
        /\ (epochs_run = 5 /\ n_improved = 3 /\ last_improved = 2) =>
              Len(ckpt_log) = 3

\* C8 witness: a fit under `better` has returned after improving at epochs
\* 0, 1, 2 and not at epochs 3, 4, with 3 records written.
C8_Witness ==
    /\ model_saving_strategy = "better"
    /\ saving_path
    /\ pc = "returned"
    /\ epochs_run = 5
    /\ n_improved = 3
    /\ last_improved = 2
    /\ Len(ckpt_log) = 3

\* C9: under strategy `best` with a saving path, nothing is written while the
\* epochs run; a fit call that returns has written exactly one record, after
\* the loop and after the best dictionary was loaded, holding what was loaded.
C9_BestWritesOnceAfterTraining ==
    (model_saving_strategy = "best" /\ saving_path) =>
        IF pc = "returned"
        THEN /\ Len(ckpt_log) = 1
             /\ ckpt_log[1].training_finished
             /\ ckpt_log[1].after_load
             /\ ckpt_log[1].name = DefaultSavingName
             /\ ckpt_log[1].content = DictContent(best_model_dict, model_params)
             /\ ckpt_log[1].content = model_params
        ELSE ckpt_log = << >>

\* C9 witness: a fit under `best` has returned after several improving epochs
\* and a non-improving one, with its single record.
C9_Witness ==
    /\ model_saving_strategy = "best"
    /\ saving_path
    /\ pc = "returned"
    /\ n_improved >= 2
    /\ n_improved < epochs_run
    /\ Len(ckpt_log) = 1

\* C10: under strategy None no fit or predict call ever writes a record,
\* whatever the losses and however the calls end.
C10_NoneNeverWrites ==
    model_saving_strategy = "none" => total_written = 0 /\ ckpt_log = << >>

\* C10 witness: with a saving path and strategy None, the last of several fit
\* calls has returned with improving epochs behind it.
C10_Witness ==
    /\ model_saving_strategy = "none"
    /\ saving_path
    /\ fit_calls_left = 0
    /\ pc = "returned"
    /\ n_improved >= 1
    /\ total_written = 0

\* C11: when persisting the checkpoint of an improving epoch fails under
\* strategy `better`, training is not affected: the failure does not take the
\* call out of the epoch loop, which ends as it would have without it (all
\* epochs run, or patience exhausted).
C11_WriteFailureLeavesTrainingAlone ==
    fault = "save" =>
        /\ pc # "except"
        /\ exit_path # "interrupted"
        /\ LoopEnded => exit_path \in {"all_epochs", "patience"}

\* C12: the loss compared with best_loss at the end of an epoch is the
\* validation loss when a validation loader was passed, and the mean training
\* loss only when none was.
C12_ValidationLossDrivesImprovement ==
    loss_source # "none" =>
        loss_source = (IF val_set THEN "val_loader" ELSE "training_loader")

(***************************************************************************)
(* predict.                                                                *)
(***************************************************************************)
\* The model outputs of the first n test samples, in dataset order.
OutputsInOrder(n) == [i \in 1..n |-> ImputedData(test_set[i])]

\* C13: predict takes the test samples in their original order and joins the
\* per-batch outputs in that order: while the loop runs, the collected outputs
\* are those of the samples served so far, in order; the returned array has
\* one row per test sample and row i is the model output for sample i.
C13_PredictKeepsSampleOrder ==
    /\ predict_pc = "loop" =>
          TorchCat(imputation_collector) = OutputsInOrder(next_sample - 1)
    /\ predict_pc = "returned" =>
          /\ Len(result) = Len(test_set)
          /\ \A i \in 1..Len(test_set) : result[i] = ImputedData(test_set[i])

\* A call that returned after several batches, the last one partial, over
\* samples that are not all alike.
C13_Witness ==
    /\ predict_pc = "returned"
    /\ Len(test_set) = 3
    /\ batch_size = 2
    /\ Len(imputation_collector) = 2
    /\ test_set[1] # test_set[3]

(***************************************************************************)
(* DatasetForBRITS.                                                        *)
(***************************************************************************)
Fetched == sample # << >>

\* C14: in eager and in lazy mode a fetched sample has exactly 7 elements
\* when return_labels is false, labels in the backing data or not; it has an
\* 8th element, the label of that sample, exactly when return_labels is true
\* and labels are present. A dataset built with return_labels false, as
\* BRITS.predict builds it, therefore only hands out samples of the length
\* its testing input is unpacked into.
C14_SampleArity ==
    Fetched =>
        /\ Len(sample) \in {7, 8}
        /\ ~return_labels => Len(sample) = 7
        /\ Len(sample) = 8 <=> (return_labels /\ ds_has_y)
        /\ Len(sample) = 8 => sample[8] = Label(sample[1])
        /\ ~return_labels => Len(sample) = TestingUnpackArity

\* A lazy fetch with labels in the file and return_labels false.
C14_Witness ==
    /\ Fetched
    /\ ds_lazy
    /\ ds_has_y
    /\ ~return_labels
    /\ Len(sample) = 7

Holders == {w \in DOMAIN file_handle : file_handle[w] # 0}

\* C16: in lazy mode every worker reads through a handle of its own: no two
\* workers ever hold the same handle, a worker that has fetched a sample holds
\* one, each worker has opened exactly one, and a handle once opened is kept
\* for the worker's later accesses, under every interleaving of the fetches.
C16_PrivateHandles ==
    /\ [](\A a, b \in Holders : a # b => file_handle[a] # file_handle[b])
    /\ []((ds_lazy /\ Fetched) => sample_ctx \in Holders)
    /\ [](handles_opened = Cardinality(Holders))
    /\ [][\A w \in Holders : file_handle'[w] = file_handle[w]]_vars

\* Two workers both hold a handle, and the one that opened first has fetched
\* again after the other one opened.
C16_Witness ==
    /\ ds_lazy
    /\ Len(file_handle) = 2
    /\ file_handle[1] = 1
    /\ file_handle[2] = 2
    /\ sample_ctx = 1

\* The (mask, delta) pairs of the fetched sample: forward and backward.
MaskDeltaPairs == {<<sample[3], sample[4]>>, <<sample[6], sample[7]>>}

\* C17: for every 0/1 mask, the first row of the delta matrix is 0 for every
\* feature, and every later row is at least the step gap for every feature.
C17_DeltaBounds ==
    Fetched =>
        \A p \in MaskDeltaPairs :
            LET delta == p[2]
            IN  \A t \in 1..Len(delta) : \A f \in 1..Len(delta[t]) :
                    IF t = 1 THEN delta[t][f] = 0 ELSE delta[t][f] >= StepGap

\* A fetched series of three steps whose first two steps are missing.
C17_Witness ==
    /\ Fetched
    /\ Len(sample[3]) = 3
    /\ sample[3][1][1] = 0
    /\ sample[3][2][1] = 0
    /\ sample[4][3][1] > StepGap

\* The steps before t at which feature f was observed.
ObservedBefore(mask, t, f) == {u \in 1..(t - 1) : mask[u][f] = 1}

\* The time elapsed at step t since feature f was last observed, or since the
\* first step when it was not observed before t. Steps are counted from 1
\* here, so the first step is the source's step 0.
SinceLastObserved(mask, t, f) ==
    LET seen == ObservedBefore(mask, t, f)
    IN  IF seen = {}
        THEN StepGap * (t - 1)
        ELSE StepGap * (t - (CHOOSE s \in seen : \A u \in seen : u <= s))

\* C18: for every 0/1 mask, feature f and step t after the first, the delta is
\* step_gap times the distance to the latest earlier step at which f was
\* observed, or step_gap times t (counted from 0) when f was observed at no
\* earlier step; fully observed masks give step_gap at every later step,
\* fully missing masks give step_gap times t.
C18_DeltaClosedForm ==
    Fetched =>
        \A p \in MaskDeltaPairs :
            LET mask == p[1]
                delta == p[2]
            IN  \A t \in 2..Len(mask) : \A f \in 1..Len(mask[t]) :
                    /\ delta[t][f] = SinceLastObserved(mask, t, f)
                    /\ (\A u \in 1..Len(mask) : mask[u][f] = 1) => delta[t][f] = StepGap
                    /\ (\A u \in 1..Len(mask) : mask[u][f] = 0) =>
                           delta[t][f] = StepGap * (t - 1)

\* A fetched series observed at its second step only, of four steps.
C18_Witness ==
    /\ Fetched
    /\ sample[3] = <<<<0>>, <<1>>, <<0>>, <<0>>>>
    /\ sample[4] = <<<<0>>, <<StepGap>>, <<StepGap>>, <<2 * StepGap>>>>

\* Column f of a series: the values of one feature over time.
Column(series, f) == [t \in 1..Len(series) |-> series[t][f]]

\* C19: in every sample backward X and backward mask are forward X and
\* forward mask reversed in time, and backward delta is the delta of the
\* reversed mask, not the forward delta reversed: for the mask column
\* [1,0,0,1,0] the two differ.
C19_BackwardDeltaIsRecomputed ==
    Fetched =>
        /\ sample[5] = Flip(sample[2])
        /\ sample[6] = Flip(sample[3])
        /\ sample[7] = ParseDelta(Flip(sample[3]))
        /\ \A f \in 1..Len(sample[3][1]) :
               Column(sample[3], f) = <<1, 0, 0, 1, 0>> =>
                   /\ Column(sample[7], f) # Column(Flip(sample[4]), f)
                   /\ sample[7] # Flip(sample[4])

\* A fetched series whose only feature has the mask [1,0,0,1,0].
C19_Witness ==
    /\ Fetched
    /\ ds_lazy
    /\ sample[3] = <<<<1>>, <<0>>, <<0>>, <<1>>, <<0>>>>
    /\ sample[7] = <<<<0>>, <<StepGap>>, <<StepGap>>, <<2 * StepGap>>, <<3 * StepGap>>>>

\* An entry the dataset treats as not observed: a NaN.
Unobserved(v) == IsNan(v)

\* C20: for every input X the forward part of the built sample has mask 0
\* exactly at the entries that were unobserved, the original value wherever
\* the mask is 1, and the fill value 0 wherever the mask is 0.
C20_ForwardRoundTrip ==
    Fetched =>
        LET X == ds_X[sample[1]]
            forward_X == sample[2]
            mask == sample[3]
        IN  \A t \in 1..Len(X) : \A f \in 1..Len(X[t]) :
                /\ mask[t][f] = 0 <=> Unobserved(X[t][f])
                /\ mask[t][f] = 1 => forward_X[t][f] = X[t][f]
                /\ mask[t][f] = 0 => forward_X[t][f] = "0.0"

\* An entry that is not a finite number: NaN, +infinity or -infinity.
NonFinite(v) == v \in {"nan", "inf", "-inf"}

\* C21: every non-finite entry of X (NaN or an infinity) is 0 in the forward
\* X of the sample, and the mask is the complement of that same predicate: an
\* entry replaced by 0 has mask 0, an entry kept has mask 1.
C21_NonFiniteBecomesZero ==
    Fetched =>
        LET X == ds_X[sample[1]]
            forward_X == sample[2]
            mask == sample[3]
        IN  \A t \in 1..Len(X) : \A f \in 1..Len(X[t]) :
                IF NonFinite(X[t][f])
                THEN forward_X[t][f] = "0.0" /\ mask[t][f] = 0
                ELSE forward_X[t][f] = X[t][f] /\ mask[t][f] = 1

(***************************************************************************)
(* The training loop, continued.                                           *)
(***************************************************************************)
\* C22: an error raised while a sample is built for a training batch is never
\* swallowed: the fit call it interrupts never returns normally, an
\* improving epoch recorded before or not.
C22_BuildErrorAbortsFit ==
    fault = "fetch" => pc # "returned"

\* C23: G_steps is the number of generator optimizer steps and D_steps the
\* number of discriminator optimizer steps of each training iteration: after
\* n iterations the generator has been stepped G_steps * n times and the
\* discriminator D_steps * n times.
C23_StepsPerIteration ==
    /\ G_opt_steps = G_steps * training_step
    /\ D_opt_steps = D_steps * training_step

\* C24: the snapshot taken at an improving epoch is a frozen copy: whatever
\* the optimizers do afterwards, best_model_dict holds the model state of the
\* end of the last improving epoch, and that is the state the model has when
\* fit has loaded it and returned.
C24_SnapshotIsFrozenCopy ==
    Snapshot =>
        /\ DictContent(best_model_dict, model_params) = best_model_dict.taken_at
        /\ pc = "returned" => model_params = best_model_dict.taken_at

\* C25: the loss compared with best_loss at the end of epoch e is the mean of
\* the per-batch losses of epoch e only: the list it is the mean of holds the
\* n_batches losses of that epoch and none of an earlier epoch.
C25_EpochLossIsOfThatEpoch ==
    pc = "epoch_end" => G_collector.c = n_batches

\* C26: on each training batch the generator optimizer fires exactly when the
\* global batch index is a multiple of G_steps and the discriminator
\* optimizer exactly when it is a multiple of D_steps, each gate on its own;
\* the global batch index counts the batches of the whole run (training_step
\* before its increment) and does not restart with an epoch.
C26_GatesOnGlobalBatchIndex ==
    [][training_step' = training_step + 1 =>
          /\ G_opt_steps' = G_opt_steps + 1 <=> training_step % G_steps = 0
          /\ D_opt_steps' = D_opt_steps + 1 <=> training_step % D_steps = 0
          /\ G_opt_steps' \in {G_opt_steps, G_opt_steps + 1}
          /\ D_opt_steps' \in {D_opt_steps, D_opt_steps + 1}]_vars

\* C27: whatever G_steps, D_steps and the number of batches per epoch, when
\* every computed per-batch loss is finite (as all losses drawn here are)
\* every batch contributes a defined generator loss to the epoch statistics,
\* the loss compared with best_loss is finite, and so the first epoch of a
\* run improves on the initial best_loss of +infinity.
C27_FiniteLossesGiveFiniteEpochLoss ==
    /\ ~G_collector.nan
    /\ pc = "epoch_end" => MeanLoss(G_collector).k = "num"
    /\ epochs_run >= 1 => n_improved >= 1 /\ best_loss # Inf

\* C28: under strategy "better" the name of the record written at an
\* improving epoch is made of the class name, the epoch index and the loss
\* value; within one fit call the records carry increasing epoch indices, so
\* their names are pairwise distinct and none replaces an earlier one.
C28_BetterNamesAreDistinct ==
    (model_saving_strategy = "better" /\ saving_path) =>
        /\ \A i \in 1..Len(ckpt_log) :
               /\ Len(ckpt_log[i].name) = 3
               /\ ckpt_log[i].name[1] = "USGAN"
               /\ ckpt_log[i].name[2] \in 0..(epochs - 1)
               /\ ckpt_log[i].name[3].k = "num"
        /\ \A i, j \in 1..Len(ckpt_log) :
               i < j => /\ ckpt_log[i].name # ckpt_log[j].name
                        /\ ckpt_log[i].name[2] < ckpt_log[j].name[2]

\* Three records written by one fit call under "better".
C28_Witness ==
    /\ model_saving_strategy = "better"
    /\ saving_path
    /\ Len(ckpt_log) = 3
    /\ pc = "returned"

Running == pc \in {"batch", "epoch_end", "except", "after_loop", "trained"}

\* C29: every fit call over a finite training loader terminates. The epoch
\* loop runs at most `epochs` epochs and ends in exactly one of the outcomes
\* all epochs completed, patience exhausted or interrupted, which then stays;
\* after it fit returns a finalized model (best state loaded, eval mode) or
\* raises a fatal error; and a call that has started does one or the other.
C29_FitTerminates ==
    /\ [](epochs_run <= epochs /\ epoch <= epochs)
    /\ [](LoopEnded <=> exit_path \in {"all_epochs", "patience", "interrupted"})
    /\ [](~LoopEnded => exit_path = "none")
    /\ [][(exit_path # "none" /\ fit_calls_left' = fit_calls_left)
             => exit_path' = exit_path]_vars
    /\ [](pc = "returned" => (Snapshot /\ loaded /\ mode = "eval" /\ raised = "none"))
    /\ [](pc = "raised" => (raised \in {"RuntimeError", "ValueError"} /\ ~loaded))
    /\ Running ~> (pc \in {"returned", "raised"})

\* A call that ran all its epochs and returned, after another outcome was
\* possible: patience was enabled and did not run out.
C29_Witness ==
    /\ pc = "returned"
    /\ exit_path = "all_epochs"
    /\ epochs_run = epochs
    /\ epochs >= 2
    /\ original_patience > 0

\* C30: within one training run best_loss never increases; after every
\* completed epoch it is the least of the finite epoch losses of the epochs
\* completed so far in that run, +infinity if there is none; and best_loss is
\* +infinity exactly when best_model_dict is None.
C30_BestLossIsRunningMinimum ==
    /\ [][fit_calls_left' = fit_calls_left =>
             (best_loss' = best_loss \/ Less(best_loss', best_loss))]_vars
    /\ [](best_loss = min_loss_seen)
    /\ [](best_loss = Inf <=> best_model_dict = None)

\* Three epochs are over: the first two improved, the third had a loss above
\* best_loss and left it alone.
C30_Witness ==
    /\ epochs_run = 3
    /\ n_improved = 2
    /\ last_improved = 1
    /\ pc = "batch"
    /\ best_loss # Inf
    /\ best_loss = min_loss_seen

\* Epochs of this call that completed since the last improving one.
TrailingNonImproving == epochs_run - (last_improved + 1)

\* C31: over any sequence of fit calls on an instance with a positive
\* patience p the remaining patience stays within 0..p, and every fit call
\* halts after p consecutive non-improving epochs, whatever patience an
\* earlier call left behind.
C31_PatienceStaysInRange ==
    original_patience > 0 =>
        /\ patience \in 0..original_patience
        /\ TrailingNonImproving <= original_patience

\* A step taken while no fit call runs and that starts none: a predict call
\* or one of its deprecated wrappers.
InferenceStep == Idle /\ fit_calls_left' = fit_calls_left

\* C32: predict and its deprecated wrappers leave the training state as it
\* is: best_loss, best_model_dict and the remaining patience are the same
\* after the call as before, no optimizer has stepped, the parameters are
\* untouched and no checkpoint record is written, however the calls are
\* interleaved with fit calls.
C32_PredictLeavesTrainingState ==
    [][InferenceStep =>
          /\ best_loss' = best_loss
          /\ best_model_dict' = best_model_dict
          /\ patience' = patience
          /\ G_opt_steps' = G_opt_steps
          /\ D_opt_steps' = D_opt_steps
          /\ model_params' = model_params
          /\ ckpt_log' = ckpt_log
          /\ total_written' = total_written
          /\ pc' = pc]_vars

\* The wrapper was called after a fit call that returned with a snapshot and
\* a written record, and another fit call is still to come.
C32_Witness ==
    /\ pc = "returned"
    /\ DeprecationLine \in log
    /\ mode = "eval"
    /\ Snapshot
    /\ total_written > 0
    /\ fit_calls_left = MaxFits - 1

\* C33: for every 0/1 mask of at least two time steps and every feature
\* column, the backward delta (the delta of the mask reversed in time)
\* differs from the forward delta reversed in time; for a series of a single
\* time step the two are the same.
C33_BackwardDeltaNeverReflection ==
    Fetched =>
        LET forward_delta == sample[4]
            backward_delta == sample[7]
        IN  /\ Len(forward_delta) >= 2 =>
                  \A f \in 1..Len(forward_delta[1]) :
                      Column(backward_delta, f) # Column(Flip(forward_delta), f)
            /\ Len(forward_delta) = 1 => backward_delta = Flip(forward_delta)

\* A fetched series of two fully observed time steps and two features.
C33_Witness ==
    /\ Fetched
    /\ ~ds_lazy
    /\ sample[3] = <<<<1, 1>>, <<1, 1>>>>
    /\ sample[7] = <<<<0, 0>>, <<StepGap, StepGap>>>>

====
